---- MODULE Spec2Model ----
(***************************************************************************)
(* Model of the two classes of the repository:                             *)
(*   ExchangeEconomyClass (inauguralproject/ExchangeEconomy.py)            *)
(*   DataProject          (dataproject/dataproject.py)                     *)
(*                                                                         *)
(* Numbers.  Prices, endowments and quantities are exact rationals <<n,d>> *)
(* (d > 0, lowest terms).  The constructor fixes alpha = 1/3, beta = 2/3,  *)
(* so a Cobb-Douglas utility x1^a * x2^(1-a) is a cube root of the         *)
(* rational x1^(3a) * x2^(3(1-a)).  A utility value is therefore kept as   *)
(* the tagged tuple <<"real", <<c1, ..., ck>>>> standing for the sum of    *)
(* the cube roots of c1..ck; cube root is odd and increasing, so negation  *)
(* and comparison of one-term values are negation and comparison of c.     *)
(* <<"-inf">>, <<"nan">> and <<"complex">> are the other values Python     *)
(* produces; None is <<>>.  Rounding of binary floating point is not       *)
(* modelled.                                                               *)
(***************************************************************************)
EXTENDS Integers, Sequences, FiniteSets, TLC

VARIABLES par, call, prev, dcall

vars == <<par, call, prev, dcall>>

(* ------------------------------ bounds --------------------------------- *)
MaxNum == 4
WDen == 2
MaxLen == 3
MaxExp == 2
MaxArg == 1

(* ------------------------- rational arithmetic ------------------------- *)
RECURSIVE GCD(_, _)
GCD(a, b) == IF b = 0 THEN a ELSE GCD(b, a % b)

IAbs(n) == IF n < 0 THEN -n ELSE n

Norm(n, d) ==
    LET s == IF d < 0 THEN -1 ELSE 1
        g == GCD(IAbs(n), IAbs(d))
    IN  <<(s * n) \div g, (s * d) \div g>>

RAdd(a, b) == Norm(a[1] * b[2] + b[1] * a[2], a[2] * b[2])
RNeg(a) == <<-a[1], a[2]>>
RSub(a, b) == RAdd(a, RNeg(b))
RMul(a, b) == Norm(a[1] * b[1], a[2] * b[2])
RDiv(a, b) == Norm(a[1] * b[2], a[2] * b[1])
RLess(a, b) == a[1] * b[2] < b[1] * a[2]
RLeq(a, b) == a[1] * b[2] <= b[1] * a[2]
RAbs(a) == <<IAbs(a[1]), a[2]>>
Zero == <<0, 1>>
One == <<1, 1>>

RECURSIVE RPow(_, _)
RPow(a, k) == IF k = 0 THEN One ELSE RMul(a, RPow(a, k - 1))

None == <<>>
NegInf == <<"-inf">>
NaN == <<"nan">>
Complex == <<"complex">>
Real(terms) == <<"real", terms>>
IsReal(v) == Len(v) = 2

(* --------------------------- input domains ----------------------------- *)
\* candidate and query prices: the positive halves 1/2, 1, 3/2, ...
Prices == {Norm(n, 2) : n \in 1..MaxNum}
Shares == {Norm(k, WDen) : k \in 0..WDen}
DefaultW == <<Norm(4, 5), Norm(3, 10)>>
Endowments == {DefaultW} \cup (Shares \X Shares)
Kinds == {"float", "float64"}

RECURSIVE SeqsUpTo(_, _)
SeqsUpTo(S, n) ==
    IF n = 0 THEN {<<>>}
    ELSE LET T == SeqsUpTo(S, n - 1)
         IN  T \cup {Append(t, s) : t \in {u \in T : Len(u) = n - 1}, s \in S}

(* ------------------------ ExchangeEconomyClass -------------------------- *)
\* __init__: the parameter record
NewPar(w1A, w2A) ==
    [alpha |-> <<1, 3>>, beta |-> <<2, 3>>, w1A |-> w1A, w2A |-> w2A, p2 |-> One]

\* x ** e for a base x and a fractional exponent e, as the cube of the result
\* is needed: PowCube(x, e) = x^(3e); 3e is an integer for e in {1/3, 2/3}
PowCube(x, e) == RPow(x, RMul(<<3, 1>>, e)[1])

\* a negative base with a fractional exponent: complex for a Python float,
\* nan for a numpy float64
BadPow(kind) == IF kind = "float" THEN Complex ELSE NaN

utility_A(x1A, x2A, kind) ==
    IF RLess(x1A, Zero) \/ RLess(x2A, Zero) THEN BadPow(kind)
    ELSE Real(<<RMul(PowCube(x1A, par.alpha), PowCube(x2A, RSub(One, par.alpha)))>>)

utility_B(x1B, x2B, kind) ==
    IF RLess(x1B, Zero) \/ RLess(x2B, Zero) THEN BadPow(kind)
    ELSE Real(<<RMul(PowCube(x1B, par.beta), PowCube(x2B, RSub(One, par.beta)))>>)

\* demand_A with the income computed as a difference
demand_A_mut(p1) ==
    LET income_A == RSub(RMul(par.w1A, p1), RMul(par.w2A, par.p2))
        x1A_star == RMul(par.alpha, RDiv(income_A, p1))
        x2A_star == RMul(RSub(One, par.alpha), RDiv(income_A, par.p2))
    IN  <<x1A_star, x2A_star>>

demand_A(p1) ==
    LET income_A == RAdd(RMul(par.w1A, p1), RMul(par.w2A, par.p2))
        x1A_star == RMul(par.alpha, RDiv(income_A, p1))
        x2A_star == RMul(RSub(One, par.alpha), RDiv(income_A, par.p2))
    IN  <<x1A_star, x2A_star>>

\* demand_B with A's endowment of good 1 in place of B's
demand_B_mut(p1) ==
    LET income_B == RAdd(RMul(par.w1A, p1), RMul(RSub(One, par.w2A), par.p2))
        x1B_star == RMul(par.beta, RDiv(income_B, p1))
        x2B_star == RMul(RSub(One, par.beta), RDiv(income_B, par.p2))
    IN  <<x1B_star, x2B_star>>

demand_B(p1) ==
    LET income_B == RAdd(RMul(RSub(One, par.w1A), p1), RMul(RSub(One, par.w2A), par.p2))
        x1B_star == RMul(par.beta, RDiv(income_B, p1))
        x2B_star == RMul(RSub(One, par.beta), RDiv(income_B, par.p2))
    IN  <<x1B_star, x2B_star>>

market_clearing_error(p1) ==
    LET dA == demand_A(p1)
        dB == demand_B(p1)
        eps1 == RAbs(RSub(RAdd(dA[1], dB[1]), One))
        eps2 == RAbs(RSub(RAdd(dA[2], dB[2]), One))
    IN  RAdd(eps1, eps2)

\* the comparison as >=: a later candidate of equal utility replaces the kept one
Greater_mut(u, m) ==
    /\ IsReal(u)
    /\ \/ m = NegInf
       \/ IsReal(m) /\ RLeq(m[2][1], u[2][1])

\* utility_A > max_utility (line 56); both operands are one-term reals,
\* -inf or nan here.  A comparison with nan is False.
Greater(u, m) ==
    /\ IsReal(u)
    /\ \/ m = NegInf
       \/ IsReal(m) /\ RLess(m[2][1], u[2][1])

\* the loop of maximize_consumer_A_utility_discrete from candidate i on;
\* st = [max_utility, optimal_price, optimal_allocation_A]
RECURSIVE DiscreteLoop(_, _, _, _)
DiscreteLoop(P1, kind, i, st) ==
    IF i > Len(P1) THEN [status |-> "returned", error |-> "",
                         value |-> <<st.optimal_price, st.optimal_allocation_A, st.max_utility>>]
    ELSE LET p1 == P1[i]
             dB == demand_B(p1)
             x1A_star == RSub(One, dB[1])
             x2A_star == RSub(One, dB[2])
             uA == utility_A(x1A_star, x2A_star, kind)
         IN  IF uA = Complex
             THEN [status |-> "raised", error |-> "TypeError", value |-> None]
             ELSE IF Greater(uA, st.max_utility)
                  THEN DiscreteLoop(P1, kind, i + 1,
                          [max_utility |-> uA, optimal_price |-> p1,
                           optimal_allocation_A |-> <<x1A_star, x2A_star>>])
                  ELSE DiscreteLoop(P1, kind, i + 1, st)

maximize_consumer_A_utility_discrete(P1, kind) ==
    DiscreteLoop(P1, kind, 1,
        [max_utility |-> NegInf, optimal_price |-> None, optimal_allocation_A |-> None])

\* the record of one call of a method of the economy
Idle == [op |-> "none", arg |-> None, kind |-> "", status |-> "idle", error |-> "",
         value |-> None, answer |-> None, problem |-> None, solverCalls |-> 0,
         printed |-> 0]

Pure(op, arg, kind, value) ==
    [Idle EXCEPT !.op = op, !.arg = arg, !.kind = kind, !.status = "returned",
                 !.value = value]

Call_utility_A ==
    /\ call.op = "none"
    /\ \E x1 \in Shares, x2 \in Shares :
          call' = Pure("utility_A", <<x1, x2>>, "float", utility_A(x1, x2, "float"))
    /\ UNCHANGED <<par, dcall>>
    /\ prev' = Idle

Call_utility_B ==
    /\ call.op = "none"
    /\ \E x1 \in Shares, x2 \in Shares :
          call' = Pure("utility_B", <<x1, x2>>, "float", utility_B(x1, x2, "float"))
    /\ UNCHANGED <<par, dcall>>
    /\ prev' = Idle

Call_demand_A ==
    /\ call.op = "none"
    /\ \E p1 \in Prices : call' = Pure("demand_A", p1, "float", demand_A(p1))
    /\ UNCHANGED <<par, dcall>>
    /\ prev' = Idle

Call_demand_B ==
    /\ call.op = "none"
    /\ \E p1 \in Prices : call' = Pure("demand_B", p1, "float", demand_B(p1))
    /\ UNCHANGED <<par, dcall>>
    /\ prev' = Idle

Call_market_clearing_error ==
    /\ call.op = "none"
    /\ \E p1 \in Prices :
          call' = Pure("market_clearing_error", p1, "float", market_clearing_error(p1))
    /\ UNCHANGED <<par, dcall>>
    /\ prev' = Idle

Call_maximize_consumer_A_utility_discrete ==
    /\ call.op = "none"
    /\ \E P1 \in SeqsUpTo(Prices, MaxLen), kind \in Kinds :
          LET r == maximize_consumer_A_utility_discrete(P1, kind)
          IN  call' = [Idle EXCEPT !.op = "maximize_consumer_A_utility_discrete",
                                   !.arg = P1, !.kind = kind, !.status = r.status,
                                   !.error = r.error, !.value = r.value]
    /\ UNCHANGED <<par, dcall>>
    /\ prev' = Idle

(* ------------------------- solver-based methods ------------------------ *)
\* -v and u + v on utility values (numpy semantics: nan propagates)
Neg(v) == IF IsReal(v) THEN Real([i \in 1..Len(v[2]) |-> RNeg(v[2][i])]) ELSE v
Sum(u, v) == IF IsReal(u) /\ IsReal(v) THEN Real(u[2] \o v[2]) ELSE NaN

Points == {Zero, Norm(1, 2), One} \X {Zero, Norm(1, 2), One}
Complement(x) == <<RSub(One, x[1]), RSub(One, x[2])>>

\* what scipy's minimize_scalar / minimize hands back: <<success, x>>; the
\* solver is external, so any point of the search box with either flag
ScalarAnswers == BOOLEAN \X Prices
VectorAnswers == BOOLEAN \X Points
Success(ans) == ans[1]
X(ans) == ans[2]

\* a problem as posed to the solver:
\* <<method, x0, bounds, number of constraints, objective tabulated on the grid>>
Problem(method, x0, bounds, ncons, objective) == <<method, x0, bounds, ncons, objective>>
Box == <<<<Zero, One>>, <<Zero, One>>>>

Solved(op, problem, ans, status, error, value, printed) ==
    [Idle EXCEPT !.op = op, !.kind = "float64", !.status = status, !.error = error,
                 !.value = value, !.answer = ans, !.problem = problem,
                 !.solverCalls = 1, !.printed = printed]

find_market_clearing_price(ans) ==
    LET problem == Problem("bounded", None, <<<<1, 100>>, <<10, 1>>>>, 0,
                           [p \in Prices |-> market_clearing_error(p)])
    IN  IF Success(ans)
        THEN Solved("find_market_clearing_price", problem, ans, "returned", "", X(ans), 0)
        ELSE Solved("find_market_clearing_price", problem, ans, "raised", "ValueError", None, 0)

ContinuousObjective(p1) ==
    LET dB == demand_B(p1) IN Neg(utility_A(RSub(One, dB[1]), RSub(One, dB[2]), "float64"))

maximize_consumer_A_utility_continuous(ans) ==
    LET problem == Problem("L-BFGS-B", <<One>>, <<<<<<1, 100>>, None>>>>, 0,
                           [p \in Prices |-> ContinuousObjective(p)])
        optimal_price == X(ans)
        optimal_allocation_A == Complement(demand_B(optimal_price))
        fun == ContinuousObjective(optimal_price)
    IN  IF Success(ans)
        THEN Solved("maximize_consumer_A_utility_continuous", problem, ans, "returned", "",
                    <<optimal_price, optimal_allocation_A, Neg(fun)>>, 0)
        ELSE Solved("maximize_consumer_A_utility_continuous", problem, ans, "raised",
                    "ValueError", None, 0)

\* objective of the two constrained problems: -utility_A(x[0], x[1])
NegUtilityA(x) == Neg(utility_A(x[1], x[2], "float64"))

optimize_allocation_pareto_improvement(ans) ==
    LET problem == Problem("SLSQP", <<par.w1A, par.w2A>>, Box, 2,
                           [x \in Points |-> NegUtilityA(x)])
    IN  IF Success(ans)
        THEN Solved("optimize_allocation_pareto_improvement", problem, ans, "returned", "",
                    <<X(ans), Neg(NegUtilityA(X(ans)))>>, 0)
        ELSE Solved("optimize_allocation_pareto_improvement", problem, ans, "raised",
                    "ValueError", None, 0)

\* prints five lines on success, one line otherwise; returns None either way
maximize_utility_unrestricted(ans) ==
    LET problem == Problem("SLSQP", <<par.w1A, par.w2A>>, Box, 1,
                           [x \in Points |-> NegUtilityA(x)])
    IN  IF Success(ans)
        THEN Solved("maximize_utility_unrestricted", problem, ans, "returned", "", None, 5)
        ELSE Solved("maximize_utility_unrestricted", problem, ans, "returned", "", None, 1)

\* objective of the two summation problems:
\* -(utility_A(x[0], x[1]) + utility_B(1 - x[0], 1 - x[1]))
NegTotal(x) ==
    LET xB == Complement(x)
    IN  Neg(Sum(utility_A(x[1], x[2], "float64"), utility_B(xB[1], xB[2], "float64")))

SumResult(x) ==
    LET xB == Complement(x)
    IN  <<x, xB, Sum(utility_A(x[1], x[2], "float64"), utility_B(xB[1], xB[2], "float64"))>>

AggregateProblem ==
    Problem("SLSQP", <<par.w1A, par.w2A>>, Box, 0, [x \in Points |-> NegTotal(x)])

maximize_aggregate_utility(ans) ==
    IF Success(ans)
    THEN Solved("maximize_aggregate_utility", AggregateProblem, ans, "returned", "",
                SumResult(X(ans)), 0)
    ELSE Solved("maximize_aggregate_utility", AggregateProblem, ans, "raised",
                "ValueError", None, 0)

\* the problem of maximize_total_utility started at (1, 1)
TotalProblem_mut ==
    Problem("SLSQP", <<One, One>>, Box, 0, [x \in Points |-> NegTotal(x)])

TotalProblem ==
    Problem("SLSQP", <<par.w1A, par.w2A>>, Box, 0, [x \in Points |-> NegTotal(x)])

maximize_total_utility(ans) ==
    IF Success(ans)
    THEN Solved("maximize_total_utility", TotalProblem, ans, "returned", "",
                SumResult(X(ans)), 0)
    ELSE Solved("maximize_total_utility", TotalProblem, ans, "raised",
                "ValueError", None, 0)

SumOps == {"maximize_aggregate_utility", "maximize_total_utility"}
SolverOps == SumOps \cup {"find_market_clearing_price",
                          "maximize_consumer_A_utility_continuous",
                          "optimize_allocation_pareto_improvement",
                          "maximize_utility_unrestricted"}

\* find_market_clearing_price keeping the price it found in the parameters
Call_find_market_clearing_price_mut ==
    /\ call.op = "none"
    /\ \E ans \in ScalarAnswers :
          /\ call' = find_market_clearing_price(ans)
          /\ par' = [par EXCEPT !.p2 = X(ans)]
    /\ UNCHANGED dcall
    /\ prev' = Idle

Call_find_market_clearing_price ==
    /\ call.op = "none"
    /\ \E ans \in ScalarAnswers : call' = find_market_clearing_price(ans)
    /\ UNCHANGED <<par, dcall>>
    /\ prev' = Idle

Call_maximize_consumer_A_utility_continuous ==
    /\ call.op = "none"
    /\ \E ans \in ScalarAnswers : call' = maximize_consumer_A_utility_continuous(ans)
    /\ UNCHANGED <<par, dcall>>
    /\ prev' = Idle

Call_optimize_allocation_pareto_improvement ==
    /\ call.op = "none"
    /\ \E ans \in VectorAnswers : call' = optimize_allocation_pareto_improvement(ans)
    /\ UNCHANGED <<par, dcall>>
    /\ prev' = Idle

Call_maximize_utility_unrestricted ==
    /\ call.op = "none"
    /\ \E ans \in VectorAnswers : call' = maximize_utility_unrestricted(ans)
    /\ UNCHANGED <<par, dcall>>
    /\ prev' = Idle

\* maximize_aggregate_utility and maximize_total_utility may be called as a
\* pair, one right after the other: prev then keeps the record of the first
Call_maximize_aggregate_utility ==
    /\ call.op = "none" \/ (call.op \in SumOps /\ prev.op = "none")
    /\ \E ans \in VectorAnswers : call' = maximize_aggregate_utility(ans)
    /\ prev' = call
    /\ UNCHANGED <<par, dcall>>

Call_maximize_total_utility ==
    /\ call.op = "none" \/ (call.op \in SumOps /\ prev.op = "none")
    /\ \E ans \in VectorAnswers : call' = maximize_total_utility(ans)
    /\ prev' = call
    /\ UNCHANGED <<par, dcall>>

\* the call has completed and its result is with the caller
Return ==
    /\ call.op # "none"
    /\ call' = Idle
    /\ prev' = Idle
    /\ UNCHANGED <<par, dcall>>

(* ----------------------------- DataProject ------------------------------ *)
\* the provider (yfinance) as seen by one call: <<options fails, chains>> for
\* get_option_data, chains[k] = <<option_chain fails, calls rows, puts rows>>
\* for the k-th expiry date of stock.options
RowSeqs == {<<>>, <<1>>, <<2, 1>>}
Chains == BOOLEAN \X RowSeqs \X RowSeqs
Providers == BOOLEAN \X SeqsUpTo(Chains, MaxExp)

\* append with the rows of other put first
DfAppend_mut(df, other) == other \o df

\* DataFrame.append(other): a new frame, the rows of other after the rows of self
DfAppend(df, other) == df \o other

DIdle == [op |-> "none", arg |-> None, status |-> "idle", error |-> "", value |-> None,
          log |-> <<>>]

\* the loop skipping an expiry date whose chain cannot be fetched
RECURSIVE OptionLoop_mut(_, _, _, _)
OptionLoop_mut(chains, k, all_option_data, log) ==
    IF k > Len(chains)
    THEN [status |-> "returned", error |-> "", value |-> all_option_data, log |-> log]
    ELSE LET opts == chains[k]
             log1 == Append(log, <<"option_chain", k>>)
         IN  IF opts[1]
             THEN OptionLoop_mut(chains, k + 1, all_option_data, log1)
             ELSE OptionLoop_mut(chains, k + 1,
                                 DfAppend(DfAppend(all_option_data, opts[2]), opts[3]), log1)

\* the for loop of get_option_data from the k-th expiry date on
RECURSIVE OptionLoop(_, _, _, _)
OptionLoop(chains, k, all_option_data, log) ==
    IF k > Len(chains)
    THEN [status |-> "returned", error |-> "", value |-> all_option_data, log |-> log]
    ELSE LET opts == chains[k]
             log1 == Append(log, <<"option_chain", k>>)
         IN  IF opts[1]
             THEN [status |-> "raised", error |-> "ProviderError", value |-> None,
                   log |-> log1]
             ELSE OptionLoop(chains, k + 1,
                             DfAppend(DfAppend(all_option_data, opts[2]), opts[3]), log1)

get_option_data(provider) ==
    IF provider[1]
    THEN [status |-> "raised", error |-> "ProviderError", value |-> None,
          log |-> <<<<"options", 0>>>>]
    ELSE OptionLoop(provider[2], 1, <<>>, <<<<"options", 0>>>>)

\* stock.history either raises or hands back the rows, which are returned as is
get_stock_data(fails, data) ==
    IF fails
    THEN [status |-> "raised", error |-> "ProviderError", value |-> None,
          log |-> <<<<"history", 0>>>>]
    ELSE [status |-> "returned", error |-> "", value |-> data, log |-> <<<<"history", 0>>>>]

\* black_scholes rejecting a volatility that is not positive
black_scholes_mut(S, K, r, sigma, T, option_type) ==
    IF K = 0
    THEN [status |-> "raised", error |-> "ZeroDivisionError", value |-> None, log |-> <<>>]
    ELSE IF sigma <= 0
    THEN [status |-> "raised", error |-> "ValueError", value |-> None, log |-> <<>>]
    ELSE IF option_type = "call"
    THEN [status |-> "returned", error |-> "", value |-> <<"call_price">>, log |-> <<>>]
    ELSE IF option_type = "put"
    THEN [status |-> "returned", error |-> "", value |-> <<"put_price">>, log |-> <<>>]
    ELSE [status |-> "raised", error |-> "ValueError", value |-> None, log |-> <<>>]

\* S, K, r, sigma, T are Python numbers.  Line 70 divides S by K before
\* option_type is looked at; every other division is by a numpy float64 and
\* yields inf or nan instead of raising.  The price itself (log, exp and the
\* normal CDF) is kept as the name of the formula that produced it.
black_scholes(S, K, r, sigma, T, option_type) ==
    IF K = 0
    THEN [status |-> "raised", error |-> "ZeroDivisionError", value |-> None, log |-> <<>>]
    ELSE IF option_type = "call"
    THEN [status |-> "returned", error |-> "", value |-> <<"call_price">>, log |-> <<>>]
    ELSE IF option_type = "put"
    THEN [status |-> "returned", error |-> "", value |-> <<"put_price">>, log |-> <<>>]
    ELSE [status |-> "raised", error |-> "ValueError", value |-> None, log |-> <<>>]

Done(op, arg, r) ==
    [op |-> op, arg |-> arg, status |-> r.status, error |-> r.error, value |-> r.value,
     log |-> r.log]

Call_get_stock_data ==
    /\ dcall.op = "none"
    /\ \E fails \in BOOLEAN, data \in RowSeqs :
          dcall' = Done("get_stock_data", <<fails, data>>, get_stock_data(fails, data))
    /\ UNCHANGED <<par, call, prev>>

Call_get_option_data ==
    /\ dcall.op = "none"
    /\ \E provider \in Providers :
          dcall' = Done("get_option_data", provider, get_option_data(provider))
    /\ UNCHANGED <<par, call, prev>>

OptionTypes == {"call", "put", "exotic"}

Call_black_scholes ==
    /\ dcall.op = "none"
    /\ \E S \in 0..(MaxArg + 1), K \in 0..(MaxArg + 1), r \in 0..MaxArg,
          sigma \in 0..MaxArg, T \in 0..MaxArg, option_type \in OptionTypes :
          dcall' = Done("black_scholes", <<S, K, r, sigma, T, option_type>>,
                        black_scholes(S, K, r, sigma, T, option_type))
    /\ UNCHANGED <<par, call, prev>>

DReturn ==
    /\ dcall.op # "none"
    /\ dcall' = DIdle
    /\ UNCHANGED <<par, call, prev>>

Init ==
    /\ \E w \in Endowments : par = NewPar(w[1], w[2])
    /\ call = Idle
    /\ prev = Idle
    /\ dcall = DIdle

Next ==
    \/ Call_utility_A
    \/ Call_utility_B
    \/ Call_demand_A
    \/ Call_demand_B
    \/ Call_market_clearing_error
    \/ Call_maximize_consumer_A_utility_discrete
    \/ Call_find_market_clearing_price
    \/ Call_maximize_consumer_A_utility_continuous
    \/ Call_optimize_allocation_pareto_improvement
    \/ Call_maximize_utility_unrestricted
    \/ Call_maximize_aggregate_utility
    \/ Call_maximize_total_utility
    \/ Return

Spec == Init /\ [][Next]_vars

InitData ==
    /\ par = NewPar(DefaultW[1], DefaultW[2])
    /\ call = Idle
    /\ prev = Idle
    /\ dcall = DIdle

NextData ==
    \/ Call_get_stock_data
    \/ Call_get_option_data
    \/ Call_black_scholes
    \/ DReturn

SpecData == InitData /\ [][NextData]_vars

(* =============================== claims ================================= *)
Discrete == "maximize_consumer_A_utility_discrete"

\* C1: maximize_consumer_A_utility_discrete called with an empty sequence of
\* candidate prices fails with an error (ValueError); it returns no tuple.
C1_EmptyCandidatesFail ==
    (call.op = Discrete /\ Len(call.arg) = 0)
        => (call.status = "raised" /\ call.error = "ValueError")

\* A's allocation and utility at candidate price p1, stated from the formulas
CandAlloc(p1) == Complement(demand_B(p1))
CandUtility(p1, kind) == utility_A(CandAlloc(p1)[1], CandAlloc(p1)[2], kind)
InDomain(p1) == RLeq(Zero, CandAlloc(p1)[1]) /\ RLeq(Zero, CandAlloc(p1)[2])
Cube(u) == u[2][1]

\* candidate i attains the maximum utility, and no earlier candidate does
FirstMaximizer(P1, kind, i) ==
    /\ IsReal(CandUtility(P1[i], kind))
    /\ \A j \in 1..Len(P1) :
          /\ IsReal(CandUtility(P1[j], kind))
          /\ RLeq(Cube(CandUtility(P1[j], kind)), Cube(CandUtility(P1[i], kind)))
          /\ j < i => RLess(Cube(CandUtility(P1[j], kind)), Cube(CandUtility(P1[i], kind)))

ReturnsFirstMaximizer ==
    /\ call.status = "returned"
    /\ \E i \in 1..Len(call.arg) :
          /\ FirstMaximizer(call.arg, call.kind, i)
          /\ call.value = <<call.arg[i], CandAlloc(call.arg[i]),
                            CandUtility(call.arg[i], call.kind)>>

\* C2 as claimed: for every non-empty sequence of candidate prices p1 > 0 the
\* method returns (p*, allocation*, u*): u* the maximum of A's utility over
\* the candidates, p* the first candidate attaining it, allocation* the
\* complement of demand_B(p*).
C2_AnyCandidates ==
    (call.op = Discrete /\ Len(call.arg) > 0) => ReturnsFirstMaximizer

\* C2 amended: the same, for every non-empty sequence of candidate prices
\* p1 > 0 at each of which the complement of B's demand is non-negative in
\* both goods (the domain of utility_A).
C2_CandidatesInDomain ==
    (/\ call.op = Discrete
     /\ Len(call.arg) > 0
     /\ \A j \in 1..Len(call.arg) : InDomain(call.arg[j])) => ReturnsFirstMaximizer

C2_Witness ==
    /\ call.op = Discrete
    /\ Len(call.arg) >= 2
    /\ call.arg[1] # call.arg[2]
    /\ call.status = "returned"
    /\ IsReal(CandUtility(call.arg[1], call.kind))
    /\ CandUtility(call.arg[1], call.kind) = CandUtility(call.arg[2], call.kind)
    /\ call.value[1] = call.arg[1]

In01(x) == RLeq(Zero, x) /\ RLeq(x, One)
NonNeg(x) == RLeq(Zero, x)

\* C3 as claimed: the pairs returned by demand_A(p1) and demand_B(p1), p1 > 0,
\* and the allocation for A returned by maximize_consumer_A_utility_discrete
\* have both goods in [0,1].
C3_AllocationsInUnitBox ==
    /\ call.op \in {"demand_A", "demand_B"}
          => In01(call.value[1]) /\ In01(call.value[2])
    /\ (call.op = Discrete /\ Len(call.arg) > 0 /\ call.status = "returned")
          => /\ Len(call.value[2]) = 2
             /\ In01(call.value[2][1]) /\ In01(call.value[2][2])

\* C3 amended: for every p1 > 0, demand_A(p1) and demand_B(p1) have both
\* goods non-negative, and every allocation for A that
\* maximize_consumer_A_utility_discrete returns has both goods in [0,1].
C3_DemandsNonNegative ==
    /\ call.op \in {"demand_A", "demand_B"}
          => NonNeg(call.value[1]) /\ NonNeg(call.value[2])
    /\ (call.op = Discrete /\ call.status = "returned" /\ Len(call.value[2]) = 2)
          => In01(call.value[2][1]) /\ In01(call.value[2][2])

C3_Witness ==
    /\ call.op = "demand_A"
    /\ NonNeg(call.value[1])
    /\ RLess(One, call.value[2])

\* C4: whenever the solver reports non-convergence, a solver-based method
\* ends in an error raised to its caller (ValueError), returns nothing and
\* has called the solver exactly once.
C4_NonConvergenceRaises ==
    (call.op \in SolverOps /\ ~Success(call.answer))
        => /\ call.status = "raised"
           /\ call.error = "ValueError"
           /\ call.value = None
           /\ call.solverCalls = 1

NoProviderFailure(provider) ==
    ~provider[1] /\ \A k \in 1..Len(provider[2]) : ~provider[2][k][1]

\* the rows of the chains, expiry by expiry, calls before puts
RECURSIVE ChainRows(_)
ChainRows(chains) ==
    IF chains = <<>> THEN <<>>
    ELSE chains[1][2] \o chains[1][3] \o ChainRows(Tail(chains))

FirstFailure(provider) ==
    IF provider[1] THEN 0
    ELSE CHOOSE k \in 1..Len(provider[2]) :
            provider[2][k][1] /\ \A j \in 1..(k - 1) : ~provider[2][j][1]

\* C6: if a provider call made by get_option_data fails (listing the expiry
\* dates, or fetching the chain of the k-th expiry after earlier ones were
\* accumulated), the call fails with the provider's error, the caller gets
\* no partial result, and the failed call is not made again.
C6_FailurePropagates ==
    (dcall.op = "get_option_data" /\ ~NoProviderFailure(dcall.arg))
        => /\ dcall.status = "raised"
           /\ dcall.error = "ProviderError"
           /\ dcall.value = None
           /\ Len(dcall.log) = FirstFailure(dcall.arg) + 1
           /\ \A i \in 1..Len(dcall.log) : dcall.log[i][2] = i - 1

C6_Witness ==
    /\ dcall.op = "get_option_data"
    /\ ~dcall.arg[1]
    /\ Len(dcall.arg[2]) >= 2
    /\ ~dcall.arg[2][1][1]
    /\ Len(dcall.arg[2][1][2]) > 0
    /\ dcall.arg[2][2][1]
    /\ dcall.status = "raised"

\* C7 as claimed: black_scholes fails with ValueError whenever option_type
\* is neither 'call' nor 'put', and returns a price whenever option_type is
\* 'call' or 'put' with sigma > 0 and T > 0.
C7_OnlyOptionTypeChecked ==
    dcall.op = "black_scholes"
        => LET sigma == dcall.arg[4]
               T == dcall.arg[5]
               option_type == dcall.arg[6]
           IN  /\ option_type \notin {"call", "put"}
                     => (dcall.status = "raised" /\ dcall.error = "ValueError")
               /\ (option_type \in {"call", "put"} /\ sigma > 0 /\ T > 0)
                     => dcall.status = "returned"

\* C7 amended: for a strike K # 0, black_scholes fails with ValueError
\* whenever option_type is neither 'call' nor 'put' and returns a price
\* whenever it is 'call' or 'put', whatever sigma and T are (the option_type
\* check is the only validation); for K = 0 the division S / K raises
\* ZeroDivisionError before option_type is looked at.
C7_OptionTypeCheckedAfterDivision ==
    dcall.op = "black_scholes"
        => LET K == dcall.arg[2]
               option_type == dcall.arg[6]
           IN  /\ (K # 0 /\ option_type \notin {"call", "put"})
                     => (dcall.status = "raised" /\ dcall.error = "ValueError")
               /\ (K # 0 /\ option_type \in {"call", "put"})
                     => dcall.status = "returned"
               /\ K = 0
                     => (dcall.status = "raised" /\ dcall.error = "ZeroDivisionError")

C7_Witness ==
    /\ dcall.op = "black_scholes"
    /\ dcall.arg[2] # 0
    /\ dcall.arg[4] = 0
    /\ dcall.arg[6] = "put"
    /\ dcall.status = "returned"

\* C8: no method of the economy changes the parameter record.
C8_ParNeverMutated == [][par' = par]_vars

C8_Witness ==
    /\ call.op = "maximize_total_utility"
    /\ call.status = "raised"
    /\ prev.op = "maximize_aggregate_utility"
    /\ prev.status = "returned"
    /\ par = NewPar(DefaultW[1], DefaultW[2])

\* C9: maximize_aggregate_utility and maximize_total_utility, called one
\* after the other on the same parameters, pose the same problem (objective,
\* box [0,1] x [0,1], start at the endowment, no constraints) and, for the
\* same solver answer, end in the same outcome: the same triple
\* (x, 1 - x, utility_A(x) + utility_B(1 - x)) or both raise ValueError.
C9_SameContract ==
    (call.op \in SumOps /\ prev.op \in SumOps /\ call.op # prev.op)
        => /\ call.problem = prev.problem
           /\ call.problem[2] = <<par.w1A, par.w2A>>
           /\ call.problem[3] = Box
           /\ call.problem[4] = 0
           /\ call.answer = prev.answer
                 => /\ call.status = prev.status
                    /\ call.error = prev.error
                    /\ call.value = prev.value
           /\ call.status \in {"returned", "raised"}
           /\ call.status = "raised" => call.error = "ValueError"
           /\ call.status = "returned"
                 => /\ call.value[2] = Complement(call.value[1])
                    /\ call.value[3] =
                          Sum(utility_A(call.value[1][1], call.value[1][2], "float64"),
                              utility_B(call.value[2][1], call.value[2][2], "float64"))

C9_Witness ==
    /\ call.op = "maximize_total_utility"
    /\ prev.op = "maximize_aggregate_utility"
    /\ call.answer = prev.answer
    /\ call.status = "returned"
    /\ call.value[1] = <<Norm(1, 2), Norm(1, 2)>>
    /\ par.w1A # par.w2A

Excess1(p1) == RSub(RAdd(demand_A(p1)[1], demand_B(p1)[1]), One)
Excess2(p1) == RSub(RAdd(demand_A(p1)[2], demand_B(p1)[2]), One)

\* C10: Walras' law: p1*(x1A + x1B - 1) + p2*(x2A + x2B - 1) = 0 for every
\* p1 > 0; good 1 clears exactly when good 2 clears; market_clearing_error is
\* non-negative and is 0 exactly when both markets clear.
C10_WalrasLaw ==
    call.op = "market_clearing_error"
        => LET p1 == call.arg
           IN  /\ RAdd(RMul(p1, Excess1(p1)), RMul(par.p2, Excess2(p1))) = Zero
               /\ (Excess1(p1) = Zero) <=> (Excess2(p1) = Zero)
               /\ RLeq(Zero, call.value)
               /\ (call.value = Zero) <=> (Excess1(p1) = Zero /\ Excess2(p1) = Zero)

C10_Witness ==
    /\ call.op = "market_clearing_error"
    /\ call.value = Zero
    /\ par.w1A # One
    /\ par.w1A # Zero


====
